---------------------------- MODULE Spec2Model ----------------------------
(***************************************************************************)
(* ThreadedCodeDemo: a compiler for an eight-instruction language          *)
(* (CodePlanter) feeding a dispatch loop (the run functions of Engine),    *)
(* in four near-identical copies:                                          *)
(*   computed_gotos  src/benchmarking/ComputedGotos.cpp                    *)
(*   switch_         src/benchmarking/Switch.cpp                           *)
(*   two             src/benchmarking/main2.cpp                            *)
(*   demo            src/direct_threading_demo.cpp                         *)
(* Indices (pc, loc, operands, loop-stack entries) are 0-based as in the   *)
(* C++ code; a TLA+ sequence holding a vector is read at index + 1.        *)
(***************************************************************************)
EXTENDS Integers, Sequences, FiniteSets, TLC

(***************************************************************************)
(* Bounds of the model.                                                    *)
(***************************************************************************)
MaxSrcLen == 3      \* longest source file of the execution specifications
MaxPlantLen == 4    \* longest source file of the compile-only specification
MaxEquivLen == 4    \* longest source file of the equivalence specification
MaxInLen == 1       \* longest content of std::cin
MaxCursor == 3      \* right-most tape cell the model follows the cursor to
MaxOut == 3         \* most bytes of output the model follows one call to
MaxRepeat == 512    \* longest run of `+` in the wraparound files
MaxDecr == 2        \* longest run of `-` in the wraparound files
MaxLoopCount == 255 \* longest run of `+` in the counted-loop files
MaxReadLen == 2     \* longest content of std::cin in the input specification
MaxUndefLen == 2    \* longest source file of the undefined-behaviour specification

(***************************************************************************)
(* Program constants.                                                      *)
(***************************************************************************)
memorySize == 30000     \* Engine() : memory( 30000 )
numWrap == 256          \* typedef unsigned char num

NUL == "NUL"            \* the character '\0'
OtherChar == "x"        \* any byte that is no key of opcode_map
InstrChars == {"+", "-", "<", ">", "[", "]", ".", ","}
Chars == InstrChars \cup {OtherChar, NUL}
InBytes == {0, 65}      \* bytes std::cin may deliver

Byte == 0 .. (numWrap - 1)
\* A byte outside the tape holds any value until the program writes it.
WildBytes == Byte
\* Stands for a byte nothing in the program determines: any value of
\* WildBytes, drawn when the program reads the byte.
Unknown == -1

(***************************************************************************)
(* union Instruction { OpCode opcode; int operand; }: a slot remembers     *)
(* which member was written last.  OpNull is the nullptr dummy.            *)
(***************************************************************************)
Op(o) == [k |-> "op", v |-> o]
Arg(n) == [k |-> "arg", v |-> n]
OpNull == "NULL"

\* enum struct OpCode of switch_: the enumerators' values.
OpCodeValue ==
    ("INCR" :> 0) @@ ("DECR" :> 1) @@ ("LEFT" :> 2) @@ ("RIGHT" :> 3) @@
    ("OPEN" :> 4) @@ ("CLOSE" :> 5) @@ ("PUT" :> 6) @@ ("GET" :> 7) @@
    ("HALT" :> 8)
OpCodes == DOMAIN OpCodeValue

(***************************************************************************)
(* The run functions (dispatch variants) and the namespace of each.        *)
(***************************************************************************)
CGVariants == {"cg_runFile", "cg_runMacros", "cg_runUnreachable"}
SWVariants == {"sw_runMacros", "sw_runUnreachable"}
TwoVariants == {"two_runFile", "two_runFileWithUnreachable",
                "two_runFileLambdas", "two_runFileLambdasAndUnreachable"}
DemoVariants == {"demo_runFile"}
Variants == CGVariants \cup SWVariants \cup TwoVariants \cup DemoVariants

(***************************************************************************)
(* opcode_map as each run function fills it in.                            *)
(***************************************************************************)
opcode_map ==
    ("+" :> "INCR") @@ ("-" :> "DECR") @@ ("<" :> "LEFT") @@ (">" :> "RIGHT") @@
    ("[" :> "OPEN") @@ ("]" :> "CLOSE") @@ ("." :> "PUT") @@ ("," :> "GET") @@
    (NUL :> "HALT")

\* direct_threading_demo.cpp: index into the opcode_map array.  SizeMax
\* stands for std::numeric_limits<size_t>::max().
numberOfOpCodes == 9
SizeMax == 2147483647
OperatorToOpCodeIndex(ch) ==
    CASE ch = "+" -> 0
      [] ch = "-" -> 1
      [] ch = "<" -> 2
      [] ch = ">" -> 3
      [] ch = "[" -> 4
      [] ch = "]" -> 5
      [] ch = "." -> 6
      [] ch = "," -> 7
      [] ch = NUL -> 8
      [] OTHER -> SizeMax
demo_opcode_map ==
    <<"INCR", "DECR", "LEFT", "RIGHT", "OPEN", "CLOSE", "PUT", "GET", "HALT">>

(***************************************************************************)
(* std::vector<int> indexes as the build lays it out: `size` is end() less *)
(* begin(), `elems` the ints at data()[0 .. size - 1], and `below` the     *)
(* ints at data()[-1], data()[-2], ... that a push_back made with size     *)
(* below 0 has written (Garbage where none has).  pop_back() on an empty   *)
(* vector is undefined; the build moves end() one element before begin().  *)
(***************************************************************************)
Garbage == -1
EmptyVector == [size |-> 0, elems |-> <<>>, below |-> <<>>]

push_back(vec, x) ==
    IF vec.size >= 0
    THEN [vec EXCEPT !.size = @ + 1, !.elems = Append(@, x)]
    ELSE [vec EXCEPT !.size = @ + 1, !.below = [@ EXCEPT ![-vec.size] = x]]

pop_back(vec) ==
    IF vec.size >= 1
    THEN [vec EXCEPT !.size = @ - 1, !.elems = SubSeq(@, 1, Len(@) - 1)]
    ELSE [vec EXCEPT !.size = @ - 1,
                     !.below = IF Len(@) < 1 - vec.size THEN Append(@, Garbage) ELSE @]

\* program[ start ].operand = n; a start outside the program writes outside
\* the vector's elements.
SetOperand(p, start, n) ==
    IF start \in 0 .. (Len(p) - 1) THEN [p EXCEPT ![start + 1] = Arg(n)] ELSE p

(***************************************************************************)
(* CodePlanter::plantChar, one copy per namespace.  `back` is the value    *)
(* indexes.back() returned; the result is the planter's program and        *)
(* indexes after the call.                                                 *)
(***************************************************************************)
\* Mutants of PlantLoop: the forward target one short; the backward target
\* the operand slot of the loop header instead of the slot after it.
PlantLoop_shortForward(ch, p1, idx, back, dummy) ==
    IF ch = "["
    THEN [program |-> Append(p1, dummy), indexes |-> push_back(idx, Len(p1))]
    ELSE IF ch = "]"
    THEN [program |-> Append(SetOperand(p1, back, Len(p1)),
                             Arg(back + 1)),
          indexes |-> pop_back(idx)]
    ELSE [program |-> p1, indexes |-> idx]
PlantLoop_backToOperand(ch, p1, idx, back, dummy) ==
    IF ch = "["
    THEN [program |-> Append(p1, dummy), indexes |-> push_back(idx, Len(p1))]
    ELSE IF ch = "]"
    THEN [program |-> Append(SetOperand(p1, back, Len(p1) + 1),
                             Arg(back)),
          indexes |-> pop_back(idx)]
    ELSE [program |-> p1, indexes |-> idx]

\* Mutants of PlantLoop: `]` leaves the loop stack as it is; `[` pushes the
\* index of the LoopOpen opcode and `]` resolves the slot after it.
PlantLoop_noPop(ch, p1, idx, back, dummy) ==
    IF ch = "["
    THEN [program |-> Append(p1, dummy), indexes |-> push_back(idx, Len(p1))]
    ELSE IF ch = "]"
    THEN [program |-> Append(SetOperand(p1, back, Len(p1) + 1),
                             Arg(back + 1)),
          indexes |-> idx]
    ELSE [program |-> p1, indexes |-> idx]
PlantLoop_pushOpcodeIndex(ch, p1, idx, back, dummy) ==
    IF ch = "["
    THEN [program |-> Append(p1, dummy), indexes |-> push_back(idx, Len(p1) - 1)]
    ELSE IF ch = "]"
    THEN [program |-> Append(SetOperand(p1, back + 1, Len(p1) + 1),
                             Arg(back + 2)),
          indexes |-> pop_back(idx)]
    ELSE [program |-> p1, indexes |-> idx]

PlantLoop(ch, p1, idx, back, dummy) ==
    IF ch = "["
    THEN [program |-> Append(p1, dummy), indexes |-> push_back(idx, Len(p1))]
    ELSE IF ch = "]"
    THEN LET end == Len(p1)
             start == back
         IN  [program |-> Append(SetOperand(p1, start, end + 1),
                                 Arg(start + 1)),
              indexes |-> pop_back(idx)]
    ELSE [program |-> p1, indexes |-> idx]

CG_plantChar(ch, prog, idx, back) ==
    IF ch \notin DOMAIN opcode_map
    THEN [program |-> prog, indexes |-> idx]
    ELSE PlantLoop(ch, Append(prog, Op(opcode_map[ch])), idx, back, Op(OpNull))

SW_plantChar(ch, prog, idx, back) ==
    IF ch \notin DOMAIN opcode_map
    THEN [program |-> prog, indexes |-> idx]
    ELSE PlantLoop(ch, Append(prog, Op(opcode_map[ch])), idx, back, Op("HALT"))

Two_plantChar(ch, prog, idx, back) ==
    IF ch \notin DOMAIN opcode_map
    THEN [program |-> prog, indexes |-> idx]
    ELSE PlantLoop(ch, Append(prog, Op(opcode_map[ch])), idx, back, Op(OpNull))

Demo_plantChar(ch, prog, idx, back) ==
    LET opcodeIndex == OperatorToOpCodeIndex(ch)
    IN  IF opcodeIndex > numberOfOpCodes
        THEN [program |-> prog, indexes |-> idx]
        ELSE PlantLoop(ch, Append(prog, Op(demo_opcode_map[opcodeIndex + 1])),
                       idx, back, Op(OpNull))

plantChar(v, ch, prog, idx, back) ==
    CASE v \in CGVariants -> CG_plantChar(ch, prog, idx, back)
      [] v \in SWVariants -> SW_plantChar(ch, prog, idx, back)
      [] v \in TwoVariants -> Two_plantChar(ch, prog, idx, back)
      [] v \in DemoVariants -> Demo_plantChar(ch, prog, idx, back)

(***************************************************************************)
(* The dispatch loop of each run function, as the table of what its        *)
(* handlers do: the amount INCR and DECR add to *loc, the amount RIGHT     *)
(* and LEFT add to loc, and the condition on *loc under which OPEN and     *)
(* CLOSE assign the operand to pc.                                         *)
(***************************************************************************)
Handlers(incr, decr, right, left, open, close) ==
    [INCR |-> incr, DECR |-> decr, RIGHT |-> right, LEFT |-> left,
     OPEN |-> open, CLOSE |-> close]

cg_runFile == Handlers(1, -1, 1, -1, "==0", "!=0")
\* Mutant of cg_runMacros: OPEN branches on a non-zero cell.
cg_runMacros_openOnNonZero == Handlers(1, -1, 1, -1, "!=0", "!=0")
cg_runMacros == Handlers(1, -1, 1, -1, "==0", "!=0")
cg_runUnreachable == Handlers(1, -1, 1, -1, "==0", "!=0")
sw_runMacros == Handlers(1, -1, 1, -1, "==0", "!=0")
sw_runUnreachable == Handlers(1, -1, 1, -1, "==0", "!=0")
two_runFile == Handlers(1, -1, 1, -1, "==0", "!=0")
two_runFileWithUnreachable == Handlers(1, -1, 1, -1, "==0", "!=0")
\* Mutant of two_runFileLambdas: CLOSE branches on a zero cell.
two_runFileLambdas_closeOnZero == Handlers(1, -1, 1, -1, "==0", "==0")
two_runFileLambdas == Handlers(1, -1, 1, -1, "==0", "!=0")
two_runFileLambdasAndUnreachable == Handlers(1, -1, 1, -1, "==0", "!=0")
\* std::next(loc) and std::prev(loc) discard their result: loc is not moved.
demo_runFile == Handlers(1, -1, 0, 0, "==0", "==0")

HandlersOf(v) ==
    CASE v = "cg_runFile" -> cg_runFile
      [] v = "cg_runMacros" -> cg_runMacros
      [] v = "cg_runUnreachable" -> cg_runUnreachable
      [] v = "sw_runMacros" -> sw_runMacros
      [] v = "sw_runUnreachable" -> sw_runUnreachable
      [] v = "two_runFile" -> two_runFile
      [] v = "two_runFileWithUnreachable" -> two_runFileWithUnreachable
      [] v = "two_runFileLambdas" -> two_runFileLambdas
      [] v = "two_runFileLambdasAndUnreachable" -> two_runFileLambdasAndUnreachable
      [] v = "demo_runFile" -> demo_runFile

\* The C++ condition `cond` on the cell value c.
Holds(cond, c) == IF cond = "==0" THEN c = 0 ELSE c # 0

\* Mutant of Wrap: arithmetic on an unbounded integer.
Wrap_unbounded(n) == n

\* unsigned char arithmetic.
Wrap(n) == n % numWrap

(***************************************************************************)
(* State.                                                                  *)
(***************************************************************************)
VARIABLES
    file,       \* content of the source file the run calls are given
    stdin,      \* the input byte sequence each execution is given
    cin,        \* what is left to read on std::cin
    given,      \* what std::cin held when the run call in progress was made
    variant,    \* the run function in progress (or last called)
    program,    \* Engine::program
    memory,     \* Engine::memory, cells 0 .. MaxCursor of it, and the bytes
                \* at -MaxCursor .. -1, before the vector's storage
    ncalls,     \* run calls made on the Engine instance so far
    indexes,    \* CodePlanter::indexes
    rd,         \* characters CodePlanter::input has delivered
    pc,         \* local pc of the run function, as an index into program
    loc,        \* local loc of the run function, as an index into memory
    out,        \* bytes the call in progress has written to outStream
    phase,      \* "idle", "plant", "run" or "crashed"
    ub,         \* the process has executed undefined behaviour
    hist        \* what each completed run call has produced

vars == <<file, stdin, cin, given, variant, program, memory, ncalls, indexes, rd,
          pc, loc, out, phase, ub, hist>>

RECURSIVE SeqsUpTo(_, _)
SeqsUpTo(S, n) ==
    IF n = 0 THEN {<<>>}
    ELSE LET shorter == SeqsUpTo(S, n - 1)
         IN  shorter \cup {Append(q, x) : q \in {t \in shorter : Len(t) = n - 1}, x \in S}

\* Nesting depth of the source after its first n characters.
RECURSIVE Depth(_, _)
Depth(f, n) ==
    IF n = 0 THEN 0
    ELSE Depth(f, n - 1) + (IF f[n] = "[" THEN 1 ELSE IF f[n] = "]" THEN -1 ELSE 0)

UnmatchedClose(f) == \E n \in 1 .. Len(f) : Depth(f, n) < 0
UnmatchedOpen(f) == ~UnmatchedClose(f) /\ Depth(f, Len(f)) > 0
Balanced(f) == ~UnmatchedClose(f) /\ Depth(f, Len(f)) = 0

Sources == SeqsUpTo(Chars, MaxSrcLen)
PlantSources == SeqsUpTo(Chars, MaxPlantLen)
\* The equivalence specification runs the bracket-balanced files.
EquivSources == {f \in SeqsUpTo(Chars, MaxEquivLen) : Balanced(f)}
\* std::cin is read by GET alone: a file without `,` is run on empty input.
Inputs == SeqsUpTo(InBytes, MaxInLen)
InputsFor(f) == IF \E i \in DOMAIN f : f[i] = "," THEN Inputs ELSE {<<>>}
\* The same with inputs of up to n bytes.
InputsUpTo(f, n) ==
    IF n = MaxInLen THEN InputsFor(f)
    ELSE IF \E i \in DOMAIN f : f[i] = "," THEN SeqsUpTo(InBytes, n) ELSE {<<>>}

\* Engine(): program empty, memory( 30000 ) zero-filled; what lies before
\* the storage of the vector is not known.
ZeroMemory == [l \in (-MaxCursor) .. MaxCursor |-> IF l >= 0 THEN 0 ELSE Unknown]
\* The cells of the tape the model follows.
Tape(m) == [l \in 0 .. MaxCursor |-> m[l]]

InitOn(files, n) ==
    /\ file \in files
    /\ stdin \in InputsUpTo(file, n)
    /\ cin = stdin
    /\ given = stdin
    /\ variant = "cg_runFile"
    /\ program = <<>>
    /\ memory = ZeroMemory
    /\ ncalls = 0
    /\ indexes = EmptyVector
    /\ rd = 0
    /\ pc = 0
    /\ loc = 0
    /\ out = <<>>
    /\ phase = "idle"
    /\ ub = FALSE
    /\ hist = <<>>

InitWith(files) == InitOn(files, MaxInLen)

(***************************************************************************)
(* A run call up to planter.plantProgram(): the opcode_map is filled in    *)
(* and a CodePlanter is constructed on the file; program and memory are    *)
(* the Engine's members and keep what earlier calls left in them.  `input` *)
(* is what std::cin holds when the call is made.                           *)
(***************************************************************************)
\* "# Executing: " << filename << "\n", for a file named "f".
HeaderLine == <<35, 32, 69, 120, 101, 99, 117, 116, 105, 110, 103, 58, 32, 102, 10>>
\* The run functions that write the header line to outStream; the others
\* write it to std::cerr.
HeaderToOutStream ==
    {"cg_runMacros", "cg_runUnreachable", "sw_runMacros", "sw_runUnreachable"}
\* What the call writes to outStream before it compiles the file.
Header(v, header_needed) ==
    IF header_needed /\ v \in HeaderToOutStream THEN HeaderLine ELSE <<>>

BeginCall(v, input, header_needed) ==
    /\ phase = "idle"
    /\ variant' = v
    /\ ncalls' = ncalls + 1
    /\ cin' = input
    /\ given' = input
    /\ indexes' = EmptyVector
    /\ rd' = 0
    /\ out' = Header(v, header_needed)
    /\ phase' = "plant"
    /\ UNCHANGED <<file, stdin, program, memory, pc, loc, ub, hist>>

\* The calls of the benchmarks and tests: header_needed is false.
BeginRunOn(v, input) == BeginCall(v, input, FALSE)

\* std::cin is the process's: a call reads what the calls before it have
\* left; the first call finds the whole of stdin.
BeginRun(v) == BeginRunOn(v, cin)

\* The program is started again on the same input: std::cin holds the whole
\* of stdin and the Engine is a new instance.  Which run call a process
\* makes first is the choice of its command line (--gtest_filter,
\* --benchmark_filter), which main() hands to both frameworks.
NewProcess ==
    /\ phase = "idle"
    /\ ncalls > 0
    /\ program' = <<>>
    /\ memory' = ZeroMemory
    /\ ncalls' = 0
    /\ cin' = stdin
    /\ ub' = FALSE
    /\ UNCHANGED <<file, stdin, given, variant, indexes, rd, pc, loc, out, phase,
                   hist>>

\* A new Engine instance replaces the one in use.
NewEngine ==
    /\ phase = "idle"
    /\ ncalls > 0
    /\ program' = <<>>
    /\ memory' = ZeroMemory
    /\ ncalls' = 0
    /\ UNCHANGED <<file, stdin, given, cin, variant, indexes, rd, pc, loc, out, phase,
                   ub, hist>>

(***************************************************************************)
(* CodePlanter::plantProgram, one character per step.                      *)
(***************************************************************************)
NextChar == file[rd + 1]
\* indexes.back(): the last element; on a vector whose size is 0 or less
\* (undefined) the int that lies before end(), which is what a push_back
\* has written there or else whatever the heap holds: an index of the
\* program, its first or its last, or WildIndex, one beyond the program.
WildIndex == 33
BackValues ==
    IF indexes.size >= 1 THEN {indexes.elems[indexes.size]}
    ELSE LET k == 1 - indexes.size
         IN  IF k <= Len(indexes.below) /\ indexes.below[k] # Garbage
             THEN {indexes.below[k]}
             ELSE {0, Len(program), WildIndex}
BackUndefined == NextChar = "]" /\ indexes.size <= 0

PlantStep ==
    /\ phase = "plant"
    /\ rd < Len(file)
    /\ \E back \in BackValues :
          LET r == plantChar(variant, NextChar, program, indexes, back)
          IN  /\ program' = r.program
              /\ indexes' = r.indexes
    /\ rd' = rd + 1
    /\ ub' = (ub \/ BackUndefined)
    /\ UNCHANGED <<file, stdin, given, cin, variant, memory, ncalls, pc, loc, out,
                   phase, hist>>

\* indexes.back() on an empty vector reads through a null or stale pointer.
PlantCrash ==
    /\ phase = "plant"
    /\ rd < Len(file)
    /\ BackUndefined
    /\ phase' = "crashed"
    /\ ub' = TRUE
    /\ UNCHANGED <<file, stdin, given, cin, variant, program, memory, ncalls, indexes,
                   rd, pc, loc, out, hist>>

\* What plantProgram plants at end of file.
HaltOpCode(v) ==
    IF v \in DemoVariants THEN demo_opcode_map[OperatorToOpCodeIndex(NUL) + 1]
    ELSE opcode_map[NUL]

\* End of file: HALT is planted, then pc and loc are set up for dispatch.
PlantEnd ==
    /\ phase = "plant"
    /\ rd = Len(file)
    /\ program' = Append(program, Op(HaltOpCode(variant)))
    /\ pc' = 0
    /\ loc' = 0
    /\ phase' = "run"
    /\ UNCHANGED <<file, stdin, given, cin, variant, memory, ncalls, indexes, rd, out,
                   ub, hist>>

(***************************************************************************)
(* The dispatch loop.  Each fetch reads the slot at pc as an opcode and    *)
(* advances pc by one.  A label-threaded variant jumps to whatever the     *)
(* slot holds; the switch reads the slot as an enum value.                 *)
(***************************************************************************)
InProgram(i) == i \in 0 .. (Len(program) - 1)
InTape(l) == l \in 0 .. (memorySize - 1)

\* What the fetch of a slot dispatches to: an opcode, or
\*   "TRAP"  a goto through the nullptr dummy, or through a slot whose low
\*           half an operand has overwritten: an address that is no code;
\*   "SKIP"  a value that is no case of the switch of switch_::runMacros,
\*           which has no default;
\*   "WILD"  a value that is no case of the switch of
\*           switch_::runUnreachable, whose default is
\*           __builtin_unreachable(): undefined.
Decode(v, slot) ==
    IF slot.k = "op"
    THEN IF slot.v = OpNull THEN "TRAP" ELSE slot.v
    ELSE IF v \in SWVariants
         THEN IF slot.v \in 0 .. 8
              THEN CHOOSE o \in OpCodes : OpCodeValue[o] = slot.v
              ELSE IF v = "sw_runMacros" THEN "SKIP" ELSE "WILD"
         ELSE "TRAP"

\* With pc outside the program the fetch reads what lies around the
\* vector's storage: undefined.
Fetched ==
    IF phase # "run" THEN "NONE"
    ELSE IF InProgram(pc) THEN Decode(variant, program[pc + 1])
    ELSE "WILD"

WildFetch == Fetched = "WILD"

\* pc++->operand: the slot at i read as an int.  WildOperand stands for the
\* low bits of a label address, an index outside the program.
WildOperand == -1
OperandAt(v, i) ==
    IF ~InProgram(i) THEN WildOperand
    ELSE LET slot == program[i + 1]
         IN  IF slot.k = "arg" THEN slot.v
             ELSE IF v \in SWVariants THEN OpCodeValue[slot.v]
             ELSE IF slot.v = OpNull THEN 0
             ELSE WildOperand

\* *loc read: the cell under the cursor; outside the tape, the byte that
\* lies there, any value unless the program has written or read it.
CellValues == IF memory[loc] # Unknown THEN {memory[loc]} ELSE WildBytes
\* Mutant of Store: the value is written to every cell.
Store_everyCell(c) == [l \in DOMAIN memory |-> c]
\* *loc written: outside the tape the byte that lies there is overwritten.
Store(c) == [memory EXCEPT ![loc] = c]
\* *loc read as c: the byte read is the byte a later read finds there.
Seen(c) == [memory EXCEPT ![loc] = c]
H == HandlersOf(variant)

INCR ==
    /\ Fetched = "INCR"
    /\ \E c \in CellValues : memory' = Store(Wrap(c + H.INCR))
    /\ pc' = pc + 1
    /\ ub' = (ub \/ ~InTape(loc))
    /\ UNCHANGED <<file, stdin, given, cin, variant, program, ncalls, indexes, rd,
                   loc, out, phase, hist>>

DECR ==
    /\ Fetched = "DECR"
    /\ \E c \in CellValues : memory' = Store(Wrap(c + H.DECR))
    /\ pc' = pc + 1
    /\ ub' = (ub \/ ~InTape(loc))
    /\ UNCHANGED <<file, stdin, given, cin, variant, program, ncalls, indexes, rd,
                   loc, out, phase, hist>>

\* The model follows the cursor over cells -MaxCursor .. MaxCursor only.
RIGHT ==
    /\ Fetched = "RIGHT"
    /\ loc + H.RIGHT <= MaxCursor
    /\ loc' = loc + H.RIGHT
    /\ pc' = pc + 1
    /\ ub' = ub
    /\ UNCHANGED <<file, stdin, given, cin, variant, program, memory, ncalls,
                   indexes, rd, out, phase, hist>>

LEFT ==
    /\ Fetched = "LEFT"
    /\ loc + H.LEFT >= -MaxCursor
    /\ loc' = loc + H.LEFT
    /\ pc' = pc + 1
    /\ ub' = ub
    /\ UNCHANGED <<file, stdin, given, cin, variant, program, memory, ncalls,
                   indexes, rd, out, phase, hist>>

\* Mutant of PUT: the byte written is 0 whatever the cell holds.
PUT_writesZero ==
    /\ Fetched = "PUT"
    /\ Len(out) < MaxOut
    /\ out' = Append(out, 0)
    /\ pc' = pc + 1
    /\ ub' = (ub \/ ~InTape(loc))
    /\ UNCHANGED <<file, stdin, given, cin, variant, program, memory, ncalls,
                   indexes, rd, loc, phase, hist>>

\* The model follows a call up to MaxOut bytes of output.  A byte read
\* outside the tape is the byte a later read finds there.
PUT ==
    /\ Fetched = "PUT"
    /\ Len(out) < MaxOut
    /\ \E c \in CellValues : out' = Append(out, c) /\ memory' = Seen(c)
    /\ pc' = pc + 1
    /\ ub' = (ub \/ ~InTape(loc))
    /\ UNCHANGED <<file, stdin, given, cin, variant, program, ncalls, indexes, rd,
                   loc, phase, hist>>

\* Mutant of GET: at end of input the cell is set to 0.
GET_zeroAtEof ==
    /\ Fetched = "GET"
    /\ IF cin # <<>>
       THEN /\ memory' = Store(Head(cin))
            /\ cin' = Tail(cin)
            /\ ub' = (ub \/ ~InTape(loc))
       ELSE /\ memory' = Store(0)
            /\ cin' = cin
            /\ ub' = ub
    /\ pc' = pc + 1
    /\ UNCHANGED <<file, stdin, given, variant, program, ncalls, indexes, rd, loc,
                   out, phase, hist>>

\* Mutant of GET: a byte of value 0 is taken for the end of input.
GET_zeroIsEof ==
    /\ Fetched = "GET"
    /\ IF cin # <<>> /\ Head(cin) # 0
       THEN /\ memory' = Store(Head(cin))
            /\ cin' = Tail(cin)
            /\ ub' = (ub \/ ~InTape(loc))
       ELSE /\ UNCHANGED <<memory, cin>>
            /\ ub' = ub
    /\ pc' = pc + 1
    /\ UNCHANGED <<file, stdin, given, variant, program, ncalls, indexes, rd, loc,
                   out, phase, hist>>

\* std::cin.get( ch ); if (std::cin.good()) *loc = ch;
GET ==
    /\ Fetched = "GET"
    /\ IF cin # <<>>
       THEN /\ memory' = Store(Head(cin))
            /\ cin' = Tail(cin)
            /\ ub' = (ub \/ ~InTape(loc))
       ELSE /\ UNCHANGED <<memory, cin>>
            /\ ub' = ub
    /\ pc' = pc + 1
    /\ UNCHANGED <<file, stdin, given, variant, program, ncalls, indexes, rd, loc,
                   out, phase, hist>>

\* Mutant of OPEN: the operand slot is not skipped when the loop is entered.
OPEN_operandNotSkipped ==
    /\ Fetched = "OPEN"
    /\ LET n == OperandAt(variant, pc + 1)
       IN  \E c \in CellValues :
              /\ pc' = IF Holds(H.OPEN, c) THEN n ELSE pc + 1
              /\ memory' = Seen(c)
    /\ ub' = (ub \/ ~InTape(loc))
    /\ UNCHANGED <<file, stdin, given, cin, variant, program, ncalls, indexes, rd,
                   loc, out, phase, hist>>

OPEN ==
    /\ Fetched = "OPEN"
    /\ LET n == OperandAt(variant, pc + 1)
       IN  \E c \in CellValues :
              /\ pc' = IF Holds(H.OPEN, c) THEN n ELSE pc + 2
              /\ memory' = Seen(c)
    /\ ub' = (ub \/ ~InTape(loc))
    /\ UNCHANGED <<file, stdin, given, cin, variant, program, ncalls, indexes, rd,
                   loc, out, phase, hist>>

CLOSE ==
    /\ Fetched = "CLOSE"
    /\ LET n == OperandAt(variant, pc + 1)
       IN  \E c \in CellValues :
              /\ pc' = IF Holds(H.CLOSE, c) THEN n ELSE pc + 2
              /\ memory' = Seen(c)
    /\ ub' = (ub \/ ~InTape(loc))
    /\ UNCHANGED <<file, stdin, given, cin, variant, program, ncalls, indexes, rd,
                   loc, out, phase, hist>>

\* What a completed run call was given on std::cin and has produced.
Result ==
    [variant |-> variant, call |-> ncalls, input |-> given, out |-> out,
     memory |-> Tape(memory), consumed |-> Len(given) - Len(cin), ub |-> ub]

HALT ==
    /\ Fetched = "HALT"
    /\ pc' = pc + 1
    /\ phase' = "idle"
    /\ hist' = Append(hist, Result)
    /\ ub' = ub
    /\ UNCHANGED <<file, stdin, given, cin, variant, program, memory, ncalls,
                   indexes, rd, loc, out>>

\* switch_::Engine::runMacros on a value that is none of its cases: the
\* switch is left and the loop fetches the next slot.
SKIP ==
    /\ Fetched = "SKIP"
    /\ pc' = pc + 1
    /\ UNCHANGED <<file, stdin, given, cin, variant, program, memory, ncalls,
                   indexes, rd, loc, out, phase, ub, hist>>

(***************************************************************************)
(* An undefined fetch.  The loop goes on over what lies around the         *)
(* program's storage, slot after slot and as long as it finds something to *)
(* run there: ints that are cases of the switch run their handlers, the    *)
(* others are passed over by switch_::Engine::runMacros.  Nothing the      *)
(* program holds determines what that does, so the model keeps no count of *)
(* those slots and takes the whole stretch as one step after which         *)
(*   - every byte of the tape and before it is Unknown (any value of Byte, *)
(*     fixed by the next read of it),                                      *)
(*   - any part of what std::cin held has been consumed,                   *)
(*   - any number of bytes, each Unknown, have been written to outStream,  *)
(*   - the cursor is anywhere;                                             *)
(* and at the end of which the call has returned (a slot read as HALT),    *)
(* is back on a slot of the program (a slot read as OPEN or CLOSE before   *)
(* an int that is an index of the program), or has died (Crash).           *)
(***************************************************************************)
AnyMemory == [l \in (-MaxCursor) .. MaxCursor |-> Unknown]
Suffixes(q) == {SubSeq(q, i, Len(q)) : i \in 1 .. (Len(q) + 1)}
AnyOutput == {out \o [i \in 1 .. n |-> Unknown] : n \in 0 .. (MaxOut - Len(out))}

WildStretch ==
    /\ WildFetch
    /\ memory' = AnyMemory
    /\ cin' \in Suffixes(cin)
    /\ out' \in AnyOutput
    /\ loc' \in (-MaxCursor) .. MaxCursor
    /\ ub' = TRUE
    /\ UNCHANGED <<file, stdin, given, variant, program, ncalls, indexes, rd>>

WildReturn ==
    /\ WildStretch
    /\ pc' = pc
    /\ phase' = "idle"
    /\ hist' = Append(hist, [variant |-> variant, call |-> ncalls, input |-> given,
                             out |-> out', memory |-> Tape(memory'),
                             consumed |-> Len(given) - Len(cin'), ub |-> TRUE])

WildResume ==
    /\ WildStretch
    /\ pc' \in 0 .. (Len(program) - 1)
    /\ UNCHANGED <<phase, hist>>

\* An undefined fetch, or *loc used with loc outside the tape: the process
\* may die there.
Crash ==
    /\ \/ Fetched \in {"WILD", "TRAP"}
       \/ Fetched \in {"INCR", "DECR", "PUT", "GET", "OPEN", "CLOSE"} /\ ~InTape(loc)
    /\ phase' = "crashed"
    /\ ub' = TRUE
    /\ UNCHANGED <<file, stdin, given, cin, variant, program, memory, ncalls,
                   indexes, rd, pc, loc, out, hist>>

Plant == PlantStep \/ PlantCrash \/ PlantEnd
Dispatch ==
    INCR \/ DECR \/ RIGHT \/ LEFT \/ PUT \/ GET \/ OPEN \/ CLOSE \/ HALT
        \/ SKIP \/ WildReturn \/ WildResume \/ Crash

\* The step about to be made is defined: the process has executed no
\* undefined behaviour, the slot at pc holds an opcode, and a handler that
\* uses *loc finds the cursor on the tape.
DefinedStep ==
    /\ ~ub
    /\ Fetched \in OpCodes
    /\ Fetched \in {"INCR", "DECR", "PUT", "GET", "OPEN", "CLOSE"} => InTape(loc)

\* The dispatch loop followed as far as what it does is defined.
DefinedDispatch ==
    \/ DefinedStep /\ INCR
    \/ DefinedStep /\ DECR
    \/ DefinedStep /\ RIGHT
    \/ DefinedStep /\ LEFT
    \/ DefinedStep /\ PUT
    \/ DefinedStep /\ GET
    \/ DefinedStep /\ OPEN
    \/ DefinedStep /\ CLOSE
    \/ DefinedStep /\ HALT

(***************************************************************************)
(* Spec: one run call of any variant on a fresh Engine, then the same call *)
(* repeated on the same Engine, as the benchmark loops do.  The dispatch   *)
(* loop is followed as far as what it does is defined; SpecUndefined       *)
(* follows it beyond.                                                      *)
(***************************************************************************)
MaxCalls == 2

FirstRun == ncalls = 0 /\ hist = <<>> /\ \E v \in Variants : BeginRun(v)
\* The next iteration of the benchmark loop: std::cin is as the earlier
\* iteration left it.
RunAgain == ncalls \in 1 .. (MaxCalls - 1) /\ BeginRunOn(variant, cin)

Init == InitWith(Sources)
Next == FirstRun \/ RunAgain \/ Plant \/ DefinedDispatch
Spec == Init /\ [][Next]_vars

(***************************************************************************)
(* SpecUndefined: one run call of any variant on a fresh Engine, on the    *)
(* shortest files, with every outcome of the undefined behaviour the model *)
(* knows of: a back() or pop_back() on the empty loop stack, *loc outside  *)
(* the tape, a fetch of a slot that holds no opcode or lies outside the    *)
(* program.                                                                *)
(***************************************************************************)
InitUndefined == InitWith(SeqsUpTo(Chars, MaxUndefLen))
NextUndefined == FirstRun \/ Plant \/ Dispatch
SpecUndefined == InitUndefined /\ [][NextUndefined]_vars

(***************************************************************************)
(* SpecFresh: one run call of any variant on a fresh Engine.               *)
(***************************************************************************)
NextFresh == FirstRun \/ Plant \/ DefinedDispatch
SpecFresh == Init /\ [][NextFresh]_vars

(***************************************************************************)
(* SpecCompile: the planter alone, on longer sources.                      *)
(***************************************************************************)
InitCompile == InitWith(PlantSources)
PlanterVariants == {"cg_runFile", "sw_runMacros", "two_runFile", "demo_runFile"}
CompileRun ==
    ncalls = 0 /\ hist = <<>> /\ \E v \in PlanterVariants : BeginRun(v)
NextCompile == CompileRun \/ Plant
SpecCompile == InitCompile /\ [][NextCompile]_vars

(***************************************************************************)
(* SpecEquiv: the run functions compared.  The reference is                *)
(* computed_gotos::Engine::runFile on a fresh Engine, the first run call   *)
(* of a process.  Then a variant under test runs the same file on a fresh  *)
(* Engine, either later in the same process, as TEST NoChange and the      *)
(* benchmarks run it, where it finds std::cin as the reference run has     *)
(* left it, or first in a process started again on the same input.         *)
(***************************************************************************)
TestedVariants ==
    {"cg_runFile", "cg_runMacros", "cg_runUnreachable", "sw_runMacros",
     "sw_runUnreachable", "two_runFileLambdas"}

\* CodePlanter::plantProgram on the first n characters of f, appended to
\* prog; the file has no unmatched `]`, so indexes.back() is defined where
\* it is called.
RECURSIVE plantProgram(_, _, _, _)
plantProgram(v, f, n, prog) ==
    IF n = 0 THEN [program |-> prog, indexes |-> EmptyVector]
    ELSE LET s == plantProgram(v, f, n - 1, prog)
             back == IF s.indexes.size = 0 THEN 0 ELSE s.indexes.elems[s.indexes.size]
         IN  plantChar(v, f[n], s.program, s.indexes, back)

\* A run call from its entry to its first fetch: the file is compiled onto
\* Engine::program, HALT is planted, pc and loc are set up.
RunToDispatchOn(v, input) ==
    /\ phase = "idle"
    /\ ~UnmatchedClose(file)
    /\ LET planted == plantProgram(v, file, Len(file), program)
       IN  /\ program' = Append(planted.program, Op(HaltOpCode(v)))
           /\ indexes' = planted.indexes
    /\ variant' = v
    /\ ncalls' = ncalls + 1
    /\ cin' = input
    /\ given' = input
    /\ rd' = Len(file)
    /\ out' = <<>>
    /\ pc' = 0
    /\ loc' = 0
    /\ phase' = "run"
    /\ UNCHANGED <<file, stdin, memory, ub, hist>>

RunToDispatch(v) == RunToDispatchOn(v, cin)

RunExpected == ncalls = 0 /\ hist = <<>> /\ RunToDispatch("cg_runFile")
TestedEngine == Len(hist) = 1 /\ NewEngine
TestedProcess == Len(hist) = 1 /\ NewProcess
RunTested ==
    ncalls = 0 /\ Len(hist) = 1 /\ \E v \in TestedVariants : RunToDispatch(v)

NextEquiv ==
    RunExpected \/ TestedEngine \/ TestedProcess \/ RunTested \/ DefinedDispatch
InitEquiv == InitWith(EquivSources)
SpecEquiv == InitEquiv /\ [][NextEquiv]_vars

(***************************************************************************)
(* SpecWrap: one run call on a fresh Engine, by one run function of each   *)
(* source file, on a file made of `+` or `-` repeated and a final `.`.     *)
(***************************************************************************)
Repeated(ch, n) == [i \in 1 .. (n + 1) |-> IF i <= n THEN ch ELSE "."]
WrapSources ==
    {Repeated("+", n) : n \in 0 .. MaxRepeat}
        \cup {Repeated("-", n) : n \in 0 .. MaxDecr}
WrapRun ==
    ncalls = 0 /\ hist = <<>> /\ \E v \in PlanterVariants : BeginRun(v)
InitWrap == InitWith(WrapSources)
NextWrap == WrapRun \/ PlantStep \/ PlantEnd \/ INCR \/ DECR \/ PUT \/ HALT
SpecWrap == InitWrap /\ [][NextWrap]_vars

(***************************************************************************)
(* SpecLoop: one run call of any variant on a fresh Engine, on a file made *)
(* of `+` repeated and the loop `[-]`.                                     *)
(***************************************************************************)
CountedLoop(n) ==
    [i \in 1 .. (n + 3) |->
        IF i <= n THEN "+" ELSE IF i = n + 1 THEN "[" ELSE IF i = n + 2 THEN "-" ELSE "]"]
LoopSources == {CountedLoop(n) : n \in 0 .. MaxLoopCount}
InitLoop == InitWith(LoopSources)
NextLoop ==
    FirstRun \/ PlantStep \/ PlantEnd \/ INCR \/ DECR \/ OPEN \/ CLOSE \/ HALT
SpecLoop == InitLoop /\ [][NextLoop]_vars

(***************************************************************************)
(* SpecInput: one run call of any variant on a fresh Engine, on a          *)
(* bracket-free file, with up to MaxReadLen bytes on std::cin.             *)
(***************************************************************************)
InputSources == SeqsUpTo({",", ".", "+", ">"}, MaxSrcLen)
InitInput == InitOn(InputSources, MaxReadLen)
NextInput ==
    FirstRun \/ PlantStep \/ PlantEnd \/ INCR \/ RIGHT \/ PUT \/ GET \/ HALT
SpecInput == InitInput /\ [][NextInput]_vars

(***************************************************************************)
(* SpecHeader: one run call of any variant on a fresh Engine, with         *)
(* header_needed true or false.                                            *)
(***************************************************************************)
HeaderRun ==
    /\ ncalls = 0
    /\ hist = <<>>
    /\ \E v \in Variants, header_needed \in BOOLEAN :
          BeginCall(v, cin, header_needed)
NextHeader == HeaderRun \/ Plant \/ DefinedDispatch
SpecHeader == Init /\ [][NextHeader]_vars

(***************************************************************************)
(* SpecShared: two Engine instances in one process.  A run function runs   *)
(* the file on the first Engine, then the same run function runs the same  *)
(* file on a second Engine; std::cin is the process's.                     *)
(***************************************************************************)
SecondEngine == Len(hist) = 1 /\ NewEngine
SecondRun == ncalls = 0 /\ Len(hist) = 1 /\ BeginRunOn(variant, cin)
NextShared == FirstRun \/ SecondEngine \/ SecondRun \/ Plant \/ DefinedDispatch
SpecShared == Init /\ [][NextShared]_vars

(***************************************************************************)
(* Vocabulary of the properties.                                           *)
(***************************************************************************)
\* Nesting depth of the program before its slot i (0-based), counted on the
\* LoopOpen and LoopClose opcodes alone.
RECURSIVE ProgDepth(_, _)
ProgDepth(p, i) ==
    IF i = 0 THEN 0
    ELSE ProgDepth(p, i - 1)
         + (IF p[i] = Op("OPEN") THEN 1 ELSE IF p[i] = Op("CLOSE") THEN -1 ELSE 0)

OpenAt(p) == {i \in 0 .. (Len(p) - 1) : p[i + 1] = Op("OPEN")}
CloseAt(p) == {i \in 0 .. (Len(p) - 1) : p[i + 1] = Op("CLOSE")}
\* The LoopClose that closes the LoopOpen at i, and the converse.
MatchingClose(p, i) ==
    CHOOSE j \in CloseAt(p) :
        /\ j > i
        /\ ProgDepth(p, j + 1) = ProgDepth(p, i)
        /\ \A m \in CloseAt(p) : (m > i /\ m < j) => ProgDepth(p, m + 1) # ProgDepth(p, i)
MatchingOpen(p, j) == CHOOSE i \in OpenAt(p) : MatchingClose(p, i) = j

\* The program is compiled: plantProgram has returned on a fresh Engine.
Compiled == phase = "run" /\ ncalls = 1 /\ pc = 0

(***************************************************************************)
(* C1: for a bracket-balanced file and any input, the run functions under  *)
(* test, each run on a fresh Engine and given the same bytes on std::cin,  *)
(* produce the same output bytes, the same final tape and the same number  *)
(* of consumed input bytes as computed_gotos::Engine::runFile does.  A run *)
(* that uses *loc with the cursor off the tape has no defined result and   *)
(* is not compared.                                                        *)
(***************************************************************************)
C1_DispatchEquivalence ==
    \A i, j \in DOMAIN hist :
        (/\ Balanced(file)
         /\ hist[i].call = 1 /\ hist[j].call = 1
         /\ hist[i].variant \in TestedVariants
         /\ hist[j].variant \in TestedVariants
         /\ hist[i].input = hist[j].input
         /\ ~hist[i].ub /\ ~hist[j].ub)
        => /\ hist[i].out = hist[j].out
           /\ hist[i].memory = hist[j].memory
           /\ hist[i].consumed = hist[j].consumed

\* Both runs of `,[-]` were given the same byte on std::cin and are
\* complete, the second by the closure-wrapped variant.
C1_Witness ==
    /\ file = <<",", "[", "-", "]">>
    /\ Len(hist) = 2
    /\ hist[2].variant = "two_runFileLambdas"
    /\ hist[1].input = <<65>>
    /\ hist[2].input = <<65>>
    /\ hist[2].consumed = 1
    /\ ~hist[2].ub

(***************************************************************************)
(* C2: a run call repeated on the same Engine with the same file and the   *)
(* same input produces the output and the final tape of the first call.    *)
(***************************************************************************)
C2_RepeatedRunSame ==
    (/\ Len(hist) = 2
     /\ hist[2].call = 2
     /\ Balanced(file)
     /\ ~hist[2].ub)
    => /\ hist[2].out = hist[1].out
       /\ hist[2].memory = hist[1].memory

(***************************************************************************)
(* C3: in the program compiled from a bracket-balanced file on a fresh     *)
(* Engine, the slot after each LoopOpen holds the index of its matching    *)
(* LoopClose plus 2.                                                       *)
(***************************************************************************)
C3_OpenOperand ==
    (Compiled /\ Balanced(file))
    => \A i \in OpenAt(program) :
          program[i + 2] = Arg(MatchingClose(program, i) + 2)

\* A nested loop compiled by the switch-based planter.
C3_Witness ==
    /\ Compiled
    /\ file = <<"[", "[", "]", "]">>
    /\ variant = "sw_runMacros"

(***************************************************************************)
(* C4 as claimed: the slot after each LoopClose holds the index of its     *)
(* matching LoopOpen plus 1.                                               *)
(***************************************************************************)
C4_CloseOperandPlusOne ==
    (Compiled /\ Balanced(file))
    => \A j \in CloseAt(program) :
          program[j + 2] = Arg(MatchingOpen(program, j) + 1)

(***************************************************************************)
(* C4 as amended: the slot after each LoopClose holds the index of its     *)
(* matching LoopOpen plus 2, the slot after the LoopOpen's operand.        *)
(***************************************************************************)
C4_CloseOperand ==
    (Compiled /\ Balanced(file))
    => \A j \in CloseAt(program) :
          program[j + 2] = Arg(MatchingOpen(program, j) + 2)

\* Two loops in a row behind an instruction, compiled by the demo planter.
C4_Witness ==
    /\ Compiled
    /\ file = <<"+", "[", "]", "-">>
    /\ variant = "demo_runFile"
    /\ CloseAt(program) = {3}

(***************************************************************************)
(* C5: when `]` occurs with the loop-nesting stack empty, compilation      *)
(* fails: the dispatch loop is never entered and no run completes.         *)
(***************************************************************************)
C5_UnmatchedCloseFails ==
    UnmatchedClose(file) => (phase # "run" /\ hist = <<>>)

(***************************************************************************)
(* C6: when the file ends with a `[` still open, compilation fails: the    *)
(* dispatch loop is never entered and no run completes.                    *)
(***************************************************************************)
C6_UnmatchedOpenFails ==
    UnmatchedOpen(file) => (phase # "run" /\ hist = <<>>)

(***************************************************************************)
(* C7: only the eight instruction characters plant anything.  While the    *)
(* planter reads a file on a fresh Engine the program holds one slot per   *)
(* instruction character read and one more per bracket read; and a file    *)
(* without instruction characters compiles to the program [Halt].          *)
(***************************************************************************)
RECURSIVE SlotsOfInstrChars(_, _)
SlotsOfInstrChars(f, n) ==
    IF n = 0 THEN 0
    ELSE SlotsOfInstrChars(f, n - 1)
         + (IF f[n] \in {"[", "]"} THEN 2 ELSE IF f[n] \in InstrChars THEN 1 ELSE 0)

C7_OnlyInstrCharsPlant ==
    /\ (phase = "plant" /\ ncalls = 1 /\ ~ub)
       => Len(program) = SlotsOfInstrChars(file, rd)
    /\ (Compiled /\ \A n \in DOMAIN file : file[n] \notin InstrChars)
       => program = <<Op("HALT")>>

(***************************************************************************)
(* C8: whenever the dispatch loop runs, on the first run call of an Engine *)
(* and on every later one, the program holds exactly one Halt opcode, in   *)
(* its last slot.  Stated for bracket-balanced files of instruction        *)
(* characters, whose slots are all opcodes or resolved operands.           *)
(***************************************************************************)
HaltAt(p) == {i \in 0 .. (Len(p) - 1) : p[i + 1] = Op("HALT")}

C8_OneTrailingHalt ==
    (/\ phase = "run"
     /\ Balanced(file)
     /\ \A n \in DOMAIN file : file[n] \in InstrChars)
    => HaltAt(program) = {Len(program) - 1}

(***************************************************************************)
(* C9: in every variant, LoopClose sets pc to its operand exactly when the *)
(* cell under the cursor is not 0, and otherwise goes on with the slot     *)
(* after its operand.                                                      *)
(***************************************************************************)
C9_CloseBranchesOnNonZero ==
    [][(Fetched = "CLOSE" /\ InTape(loc) /\ phase' = "run")
        => pc' = IF memory[loc] # 0 THEN OperandAt(variant, pc + 1) ELSE pc + 2]_vars

(***************************************************************************)
(* C10: in every variant, MoveRight adds 1 to the cursor and MoveLeft      *)
(* subtracts 1 from it, and neither changes a tape cell.                   *)
(***************************************************************************)
C10_MovesMoveCursor ==
    [][/\ (Fetched = "RIGHT" /\ pc' = pc + 1) => (loc' = loc + 1 /\ memory' = memory)
       /\ (Fetched = "LEFT" /\ pc' = pc + 1) => (loc' = loc - 1 /\ memory' = memory)]_vars

(***************************************************************************)
(* C11: on a fresh Engine the file of n `+` and one `.` outputs the single *)
(* byte n mod 256; a Decrement on a cell holding 0 leaves 255 in it; and   *)
(* every tape cell is in 0 .. 255 in every state.                          *)
(***************************************************************************)
IsPlusPut(f) ==
    /\ f # <<>>
    /\ f[Len(f)] = "."
    /\ \A i \in 1 .. (Len(f) - 1) : f[i] = "+"

C11_Wraparound ==
    /\ [](/\ \A l \in 0 .. MaxCursor : memory[l] \in Byte
          /\ \A i \in DOMAIN hist :
                (IsPlusPut(file) /\ hist[i].call = 1)
                => hist[i].out = <<(Len(file) - 1) % 256>>)
    /\ [][(Fetched = "DECR" /\ InTape(loc) /\ memory[loc] = 0 /\ pc' = pc + 1)
           => memory'[loc] = 255]_vars

\* The run of 256 `+` and one `.` is complete and has output the byte 0.
C11_Witness ==
    /\ IsPlusPut(file)
    /\ Len(file) = 257
    /\ Len(hist) = 1
    /\ hist[1].out = <<0>>

(***************************************************************************)
(* C12: an Input executed when std::cin is exhausted leaves every cell and *)
(* the cursor as they are and goes on with the next slot; on a fresh       *)
(* Engine `,.` outputs the single byte 0 on empty input and the single     *)
(* byte given when the input is one byte.                                  *)
(***************************************************************************)
C12_InputAtEof ==
    /\ [](\A i \in DOMAIN hist :
            (file = <<",", ".">> /\ hist[i].call = 1)
            => hist[i].out = IF stdin = <<>> THEN <<0>> ELSE <<stdin[1]>>)
    /\ [][(Fetched = "GET" /\ cin = <<>> /\ InTape(loc) /\ ~ub)
           => (/\ memory' = memory
               /\ loc' = loc
               /\ pc' = pc + 1
               /\ phase' = "run")]_vars

\* `+,.` has run on empty input: the Input left the 1 in the cell.
C12_Witness ==
    /\ file = <<"+", ",", ".">>
    /\ stdin = <<>>
    /\ Len(hist) >= 1
    /\ hist[1].out = <<1>>

(***************************************************************************)
(* C13: the cursor is within the tape, 0 .. memorySize - 1, in every state *)
(* of an execution: a move that would leave the tape aborts the run        *)
(* instead.                                                                *)
(***************************************************************************)
C13_CursorInTape == phase \in {"run", "crashed"} => InTape(loc)

(***************************************************************************)
(* C14: while the dispatch loop runs the program compiled from a           *)
(* bracket-balanced file on a fresh Engine, pc is the index of a slot of   *)
(* the program that holds one of the nine opcodes, and the slot after a    *)
(* LoopOpen or LoopClose about to be executed holds an operand; pc is      *)
(* never beyond the trailing Halt.                                         *)
(***************************************************************************)
C14_FetchOnOpcode ==
    (phase = "run" /\ ncalls = 1 /\ Balanced(file))
    => /\ InProgram(pc)
       /\ program[pc + 1].k = "op"
       /\ program[pc + 1].v \in OpCodes
       /\ program[pc + 1].v \in {"OPEN", "CLOSE"}
          => (InProgram(pc + 1) /\ program[pc + 2].k = "arg")
       /\ pc <= Len(program) - 1

\* `-[-]` in the switch-based loop, back on the loop body after many
\* backward branches.
C14_Witness ==
    /\ file = <<"-", "[", "-", "]">>
    /\ variant = "sw_runMacros"
    /\ phase = "run"
    /\ pc = 3
    /\ memory[0] = 100

(***************************************************************************)
(* C15: Engine instances share no state.  A run function that runs a file  *)
(* on a second Engine, after it has run the file on a first one, produces  *)
(* the output and the final tape of the run on the first Engine, which ran *)
(* alone on the same input.                                                *)
(***************************************************************************)
C15_EnginesIndependent ==
    (/\ Len(hist) = 2
     /\ hist[1].call = 1 /\ hist[2].call = 1
     /\ ~hist[1].ub /\ ~hist[2].ub)
    => /\ hist[2].out = hist[1].out
       /\ hist[2].memory = hist[1].memory

(***************************************************************************)
(* C16: in the program compiled from any file on a fresh Engine, the n-th  *)
(* character of the file, when it is an instruction character, has its     *)
(* opcode at the index given by the instruction characters before it (one  *)
(* slot each, two for a bracket); the slot after a bracket's opcode is its *)
(* operand slot; Halt is last; and the length is the number of instruction *)
(* characters plus the number of brackets plus 1.                          *)
(***************************************************************************)
C16_ProgramLayout ==
    (Compiled /\ ~ub)
    => /\ Len(program) = SlotsOfInstrChars(file, Len(file)) + 1
       /\ program[Len(program)] = Op("HALT")
       /\ \A n \in DOMAIN file :
             file[n] \in InstrChars
             => LET i == SlotsOfInstrChars(file, n - 1)
                IN  /\ program[i + 1] = Op(opcode_map[file[n]])
                    /\ (file[n] \in {"[", "]"} /\ Balanced(file))
                       => program[i + 2].k = "arg"

(***************************************************************************)
(* C17: on a fresh Engine the file of n `+` and the loop `[-]` ends with   *)
(* no output and the cell at 0, in every variant.                          *)
(***************************************************************************)
C17_CountedLoopClears ==
    \A i \in DOMAIN hist :
        (file \in LoopSources /\ hist[i].call = 1)
        => (hist[i].out = <<>> /\ hist[i].memory[0] = 0)

(***************************************************************************)
(* C18: a run call on an Engine that has completed a run starts on an      *)
(* all-zero tape with the cursor at cell 0, fetches first the first slot   *)
(* this call planted (both calls plant the same file, so that slot is at   *)
(* half the program's length), and outputs what the file outputs on a      *)
(* fresh Engine.                                                           *)
(***************************************************************************)
C18_RerunStartsAfresh ==
    /\ (phase = "run" /\ ncalls = 2 /\ Len(hist) = 1 /\ pc = 0 /\ ~ub)
       => (memory = ZeroMemory /\ loc = 0)
    /\ (phase = "run" /\ ncalls = 2 /\ ~ub /\ Balanced(file))
       => pc >= Len(program) \div 2
    /\ (Len(hist) = 2 /\ hist[2].call = 2 /\ ~hist[2].ub /\ stdin = <<>>)
       => hist[2].out = hist[1].out

(***************************************************************************)
(* C19: on a fresh Engine running a bracket-balanced file, a LoopOpen      *)
(* executed on a zero cell continues at the slot after the operand of its  *)
(* matching LoopClose, and on a non-zero cell at the slot after its own    *)
(* operand; the tape and the cursor are left as they are.                  *)
(***************************************************************************)
C19_OpenBranch ==
    [][(/\ Fetched = "OPEN"
        /\ ncalls = 1
        /\ Balanced(file)
        /\ InTape(loc)
        /\ phase' = "run")
       => (/\ pc' = IF memory[loc] = 0
                    THEN MatchingClose(program, pc) + 2
                    ELSE pc + 2
           /\ memory' = memory
           /\ loc' = loc)]_vars

\* The outer LoopOpen of `[[]]` has skipped the nested loop to the Halt.
C19_Witness ==
    /\ file = <<"[", "[", "]", "]">>
    /\ variant = "cg_runMacros"
    /\ phase = "run"
    /\ pc = 8

(***************************************************************************)
(* C20: with the cursor on the tape, a step of the dispatch loop leaves    *)
(* the program as it is; Increment, Decrement and Input leave the cursor   *)
(* and every cell but the one under the cursor; MoveLeft and MoveRight     *)
(* leave every cell; Output, LoopOpen, LoopClose and Halt leave every cell *)
(* and the cursor.                                                         *)
(***************************************************************************)
C20_FrameEffects ==
    [][(phase = "run" /\ InTape(loc))
       => (/\ program' = program
           /\ Fetched \in {"INCR", "DECR", "GET"}
              => (/\ loc' = loc
                  /\ \A l \in DOMAIN memory : l # loc => memory'[l] = memory[l])
           /\ Fetched \in {"RIGHT", "LEFT"} => memory' = memory
           /\ Fetched \in {"PUT", "OPEN", "CLOSE", "HALT"}
              => (memory' = memory /\ loc' = loc))]_vars

\* `+>+` has run: the second Increment acted at cell 1 with cell 0 at 1.
C20_Witness ==
    /\ file = <<"+", ">", "+">>
    /\ Len(hist) >= 1
    /\ hist[1].memory[0] = 1
    /\ hist[1].memory[1] = 1
    /\ loc = 1

(***************************************************************************)
(* C21: with the cursor on the tape, an executed Output appends the value  *)
(* of the cell under the cursor, one byte, to what the call has written,   *)
(* and a step of any other instruction leaves what the call has written    *)
(* as it is: the output is the sequence of the cell values at the Outputs  *)
(* executed, in execution order.                                           *)
(***************************************************************************)
C21_OutputSequence ==
    [][(Fetched \in OpCodes /\ InTape(loc))
       => out' = IF Fetched = "PUT" THEN Append(out, memory[loc]) ELSE out]_vars

\* `+.+` has run: the Output wrote the 1 and the later Increment nothing.
C21_Witness ==
    /\ file = <<"+", ".", "+">>
    /\ Len(hist) = 1
    /\ hist[1].out = <<1>>
    /\ hist[1].memory[0] = 2

(***************************************************************************)
(* C22: what is left on std::cin is always a suffix of the input; with the *)
(* cursor on the tape, an Input executed while input remains stores the    *)
(* next byte of the input, a byte 0 as any other, in the cell under the    *)
(* cursor and consumes that byte alone; executed on exhausted input it     *)
(* leaves the tape as it is and consumes nothing.                          *)
(***************************************************************************)
C22_InputInOrder ==
    /\ [](/\ Len(cin) <= Len(stdin)
          /\ cin = SubSeq(stdin, Len(stdin) - Len(cin) + 1, Len(stdin)))
    /\ [][(Fetched = "GET" /\ InTape(loc) /\ phase' = "run")
           => IF cin # <<>>
              THEN /\ memory' = [memory EXCEPT ![loc] = stdin[Len(stdin) - Len(cin) + 1]]
                   /\ Len(cin') = Len(cin) - 1
              ELSE /\ memory' = memory
                   /\ cin' = cin]_vars

\* `,.,` has run on the bytes 0 and 65 in computed_gotos::Engine::runFile:
\* the first Input stored the 0, which was output, the second the 65.
C22_Witness ==
    /\ file = <<",", ".", ",">>
    /\ stdin = <<0, 65>>
    /\ variant = "cg_runFile"
    /\ Len(hist) = 1
    /\ hist[1].out = <<0>>
    /\ hist[1].memory[0] = 65
    /\ hist[1].consumed = 2

(***************************************************************************)
(* C23: when plantProgram has returned, for any file, the slot after every *)
(* LoopOpen holds a resolved jump target, not the dummy planted at `[`.    *)
(***************************************************************************)
C23_NoDummyLeft ==
    (Compiled /\ ~ub)
    => \A i \in OpenAt(program) : program[i + 2].k = "arg"

(***************************************************************************)
(* C24: while the planter reads a file without unmatched `]` on a fresh    *)
(* Engine, and when it is done, the loop stack holds as many entries as    *)
(* `[` read so far are not closed; the entries are in opening order,       *)
(* innermost on top, and are the LoopOpens whose operand is unresolved.    *)
(* For a bracket-balanced file the stack is empty at the end.              *)
(***************************************************************************)
Unresolved(p) == {i \in OpenAt(p) : p[i + 2].k # "arg"}

C24_LoopStack ==
    (phase \in {"plant", "run"} /\ ncalls = 1 /\ ~UnmatchedClose(file))
    => /\ indexes.size = Depth(file, rd)
       /\ Len(indexes.elems) = indexes.size
       /\ \A k \in 1 .. (indexes.size - 1) : indexes.elems[k] < indexes.elems[k + 1]
       /\ {indexes.elems[k] : k \in 1 .. indexes.size}
             = {i + 1 : i \in Unresolved(program)}
       /\ (phase = "run" /\ Balanced(file)) => indexes = EmptyVector

\* `[[]` read by the planter of main2.cpp: the outer loop alone is open.
C24_Witness ==
    /\ file = <<"[", "[", "]">>
    /\ variant = "two_runFile"
    /\ phase = "plant"
    /\ rd = 3
    /\ indexes.elems = <<1>>

(***************************************************************************)
(* C25: a run of a bracket-free file with k instruction characters on a    *)
(* fresh Engine executes the k instructions in file order and then fetches *)
(* Halt: while it runs pc is at most k, the index of the Halt, and when it *)
(* has ended pc is k + 1, the Halt being the last slot fetched.            *)
(***************************************************************************)
BracketFree(f) == \A n \in DOMAIN f : f[n] \notin {"[", "]"}

C25_HaltAfterAll ==
    (BracketFree(file) /\ ncalls = 1 /\ ~ub)
    => LET k == SlotsOfInstrChars(file, Len(file))
       IN  /\ phase = "run" => pc <= k
           /\ (phase = "idle" /\ Len(hist) = 1) => pc = k + 1

(***************************************************************************)
(* C26: whatever header_needed is, a run call writes to its outStream only *)
(* the bytes of the Output instructions it executes: while the file is     *)
(* compiled nothing has been written, and a file without `.` has written   *)
(* nothing when the run has ended.                                         *)
(***************************************************************************)
C26_HeaderNotOnOutStream ==
    /\ (phase = "plant" /\ ncalls = 1) => out = <<>>
    /\ \A i \in DOMAIN hist :
          (hist[i].call = 1 /\ ~hist[i].ub /\ Balanced(file)
             /\ \A n \in DOMAIN file : file[n] # ".")
          => hist[i].out = <<>>

\* The int the last push_back on the loop stack has written.
Top(vec) == IF vec.size >= 1 THEN vec.elems[vec.size] ELSE vec.below[1 - vec.size]

(***************************************************************************)
(* C27 as claimed: on `[` the planter appends the LoopOpen opcode and a    *)
(* placeholder slot and pushes the index of the LoopOpen opcode, so that   *)
(* the placeholder is at the pushed value plus 1.                          *)
(***************************************************************************)
C27_PushedIsOpcodeIndex ==
    [][(phase = "plant" /\ rd < Len(file) /\ NextChar = "[" /\ rd' = rd + 1)
       => (/\ program'[Len(program) + 1] = Op("OPEN")
           /\ Len(program') = Len(program) + 2
           /\ indexes'.size = indexes.size + 1
           /\ Top(indexes') = Len(program))]_vars

(***************************************************************************)
(* C27 as amended: on `[` the planter appends the LoopOpen opcode and a    *)
(* placeholder slot and pushes the index of the placeholder slot, which is *)
(* the index of the LoopOpen opcode plus 1.                                *)
(***************************************************************************)
C27_PushedIsOperandIndex ==
    [][(phase = "plant" /\ rd < Len(file) /\ NextChar = "[" /\ rd' = rd + 1)
       => (/\ program'[Len(program) + 1] = Op("OPEN")
           /\ Len(program') = Len(program) + 2
           /\ indexes'.size = indexes.size + 1
           /\ Top(indexes') = Len(program) + 1
           /\ indexes.size >= 0
              => indexes'.elems = Append(indexes.elems, Len(program) + 1))]_vars

\* `+[` read by the demo planter: the LoopOpen is at index 1, its
\* placeholder at index 2, and 2 is on the stack.
C27_Witness ==
    /\ file = <<"+", "[">>
    /\ variant = "demo_runFile"
    /\ phase = "plant"
    /\ rd = 2
    /\ program[2] = Op("OPEN")
    /\ indexes.elems = <<2>>

=============================================================================
